---- MODULE Spec2Model ----
(***************************************************************************)
(* Model of the snipe web front-end: the UI thread (scripts/main.js) and   *)
(* the compute worker (scripts/worker.js), which exchange messages over    *)
(* the two directions of one Worker channel.                               *)
(*                                                                         *)
(* Every action is one run-to-completion piece of a handler: the code from *)
(* one suspension point (an await, or the event that starts the handler)   *)
(* to the next.  Between two such pieces any other ready handler may run.  *)
(***************************************************************************)
EXTENDS Integers, Sequences, FiniteSets, TLC

(***************************************************************************)
(* Bounds of the model.                                                    *)
(***************************************************************************)
\* file ids generated in one session: one per dropped file, one per entry
\* extracted from a dropped archive
MaxFiles == 4
\* clicks on Remove in one session
MaxRemoves == 1
\* changes of the species / genome / Y chromosome selectors in one session
MaxSelChanges == 2
\* clicks on the load-data button in one session
MaxLoadClicks == 2
\* file ids generated while the loader is run on its own
MaxLoaderFiles == 1
\* file ids generated while the pipeline is run on its own
MaxPipelineFiles == 2
\* the milliseconds Date.now() runs through while ids are generated
MaxTime == 2
\* file ids generated while the id generation is run on its own
MaxGeneratedIds == 3
\* the tables exported: rows, columns, and characters of a text
MaxTableRows == 2
MaxColumns == 2
MaxTextLen == 1

(***************************************************************************)
(* JavaScript values.  The text of a file (a payload) is the tuple of the  *)
(* parts that name it, so the empty text is the empty tuple; undefined and *)
(* null are one-element tuples no text equals.                             *)
(***************************************************************************)
Undefined == <<"undefined">>
Null == <<"null">>
EmptyString == <<>>

\* before the first click on the export button nothing was downloaded
NoDownload == <<"no download">>

\* ToBoolean of a payload, undefined or null
Truthy(v) == v \notin {Undefined, Null, EmptyString}

(***************************************************************************)
(* speciesData (main.js 55-86).  The specific_chrs lists are abbreviated   *)
(* to the labels that tell the three genomes apart: "Y" stands for the     *)
(* labels all genomes share, "22" for 4..22 (hg38 and canfam3.1 only) and  *)
(* "38" for 23..38 (canfam3.1 only).                                       *)
(***************************************************************************)
Species == <<"dog", "human">>

Genomes(sp) ==
    IF sp = "dog" THEN <<"canfam3.1">>
    ELSE IF sp = "human" THEN <<"hg38", "other_genome">>
    ELSE <<>>

SpecificChrs(g) ==
    IF g = "canfam3.1" THEN <<"22", "38", "Y">>
    ELSE IF g = "hg38" THEN <<"22", "Y">>
    ELSE IF g = "other_genome" THEN <<"Y">>
    ELSE <<>>

YChrs(sp) ==
    IF sp = "dog" THEN <<"Y">>
    ELSE IF sp = "human" THEN <<"Y1", "Y2">>
    ELSE <<>>

Amplicons(sp) ==
    IF sp = "dog" THEN <<"extracted_exome">>
    ELSE IF sp = "human" THEN <<"exome">>
    ELSE <<>>

Range(s) == {s[i] : i \in DOMAIN s}

\* speciesData[sp] and speciesData[sp].genomes[g] exist
KnownSpecies(sp) == sp \in Range(Species)
KnownGenome(sp, g) == KnownSpecies(sp) /\ g \in Range(Genomes(sp))

(***************************************************************************)
(* The reference files behind fetch().  A path is the record of the parts  *)
(* the handler interpolates into it.  Which files the server holds is      *)
(* fixed for a session; the model knows two servers.  A served file's      *)
(* text is a token naming the file, or the empty string for an empty file. *)
(***************************************************************************)
GenomePath(sp, g) == [kind |-> "genome", species |-> sp, genome |-> g, name |-> g]
YchrPath(sp, y) == [kind |-> "y_chr", species |-> sp, genome |-> "", name |-> y]
ChrPath(sp, g, chr) == [kind |-> "specific_chrs", species |-> sp, genome |-> g, name |-> chr]
AmpliconPath(sp, a) == [kind |-> "amplicons", species |-> sp, genome |-> "", name |-> a]

Servers == {"complete", "faulty"}

\* the path names a file of the data directory
InLayout(p) ==
    /\ KnownSpecies(p.species)
    /\ CASE p.kind = "genome" -> KnownGenome(p.species, p.genome) /\ p.name = p.genome
         [] p.kind = "y_chr" -> p.name \in Range(YChrs(p.species))
         [] p.kind = "specific_chrs" ->
                KnownGenome(p.species, p.genome) /\ p.name \in Range(SpecificChrs(p.genome))
         [] p.kind = "amplicons" -> p.name \in Range(Amplicons(p.species))
         [] OTHER -> FALSE

\* files the faulty server does not hold
MissingOnFaulty(p) ==
    \/ p.kind = "genome" /\ p.genome = "other_genome"
    \/ p.kind = "y_chr" /\ p.name = "Y2"
    \/ p.kind = "amplicons" /\ p.name = "exome"
    \/ p.kind = "specific_chrs" /\ p.name = "38"

\* files the faulty server holds with no content
EmptyOnFaulty(p) == p.kind = "y_chr" /\ p.name = "Y"

\* response.ok of fetch(p)
ResponseOk(srv, p) == InLayout(p) /\ ~(srv = "faulty" /\ MissingOnFaulty(p))

\* response.text() of fetch(p)
ResponseText(srv, p) ==
    IF srv = "faulty" /\ EmptyOnFaulty(p) THEN EmptyString
    ELSE <<p.kind, p.species, p.genome, p.name>>

(***************************************************************************)
(* A JavaScript object keyed by chromosome label: `at` gives the value of  *)
(* each key, Undefined for a key the object does not have.  isObject tells *)
(* an object from the undefined a window property holds before it is set.  *)
(***************************************************************************)
AllChrs == {"22", "38", "Y"}
NoObject == [isObject |-> FALSE, at |-> [c \in AllChrs |-> Undefined]]
EmptyObject == [isObject |-> TRUE, at |-> [c \in AllChrs |-> Undefined]]
Keys(o) == {c \in AllChrs : o.at[c] # Undefined}
SetKey(o, c, v) == [o EXCEPT !.at[c] = v]

VARIABLES
    server,              \* which reference files fetch() finds
    speciesSelect,       \* value of #species-select
    genomeSelect,        \* value of #genome-select
    ychrSelect,          \* value of #ychr-select
    ampliconSelect,      \* value of #amplicon-select
    loadDisabled,        \* loadDataButton.disabled
    selChanges,          \* selector changes made so far
    removes,             \* clicks on Remove so far
    mainDataLoaded,      \* main.js 9
    loadedGenomeSig,     \* window.loadedGenomeSig
    loadedYchrSig,       \* window.loadedYchrSig
    loadedAmpliconSig,   \* window.loadedAmpliconSig
    specificChrsLoaded,  \* window.specificChrsLoaded
    loads,               \* the activations of the load-data click handler
    activeFileIds,       \* main.js 8
    files,               \* the uploads and archive entries, by file id number
    tableHead,           \* header cells of #resultsTableHead
    tableRows,           \* rows of #resultsTableBody
    containerDisplay,    \* #resultsTableContainer style.display
    download,            \* text of the results.tsv last offered for download
    alerts,              \* number of alert() calls
    toWorker,            \* every message posted to the worker, in order
    toWorkerRead,        \* how many of them the worker has taken
    toMain,              \* every message the worker posted, in order
    toMainRead,          \* how many of them worker.onmessage has handled
    pyodide,             \* self.pyodide and what it has loaded
    initState,           \* where initializePyodide stands
    pyGlobals,           \* the Python globals the handler sets
    handlers             \* the activations of self.onmessage, by request

selVars == <<speciesSelect, genomeSelect, ychrSelect, ampliconSelect, loadDisabled>>
refVars == <<mainDataLoaded, loadedGenomeSig, loadedYchrSig, loadedAmpliconSig, specificChrsLoaded>>
fileVars == <<activeFileIds, files>>
tableVars == <<tableHead, tableRows, containerDisplay, download>>
chanVars == <<toWorker, toWorkerRead, toMain, toMainRead>>
workerVars == <<pyodide, initState, pyGlobals, handlers>>
userVars == <<selChanges, removes>>
vars == <<server, userVars, selVars, refVars, loads, fileVars, tableVars, alerts, chanVars, workerVars>>

\* the Python globals before the first request
NoGlobals ==
    [genome_sig_str |-> Undefined, ychr_sig_str |-> Undefined,
     specific_chrs_snipe_sigs |-> Undefined, amplicon_sig_str |-> Undefined,
     sample_sig_str |-> Undefined, fileName |-> ""]

Init ==
    /\ server \in Servers
    /\ speciesSelect = ""
    /\ genomeSelect = ""
    /\ ychrSelect = ""
    /\ ampliconSelect = ""
    /\ loadDisabled \in BOOLEAN
    /\ selChanges = 0
    /\ removes = 0
    /\ mainDataLoaded = FALSE
    /\ loadedGenomeSig = Undefined
    /\ loadedYchrSig = Undefined
    /\ loadedAmpliconSig = Undefined
    /\ specificChrsLoaded = NoObject
    /\ loads = <<>>
    /\ activeFileIds = {}
    /\ files = <<>>
    /\ tableHead = <<>>
    /\ tableRows = <<>>
    /\ containerDisplay = ""
    /\ download = NoDownload
    /\ alerts = 0
    /\ toWorker = <<>>
    /\ toWorkerRead = 0
    /\ toMain = <<>>
    /\ toMainRead = 0
    /\ pyodide = "undefined"
    /\ initState = "initializing"
    /\ pyGlobals = NoGlobals
    /\ handlers = <<>>

(***************************************************************************)
(* The selectors (main.js 515-601).  Choosing a value runs its change      *)
(* handler, which refills the selectors below it, selects their first      *)
(* option and dispatches their change events in turn.                      *)
(***************************************************************************)
First(s) == IF s = <<>> THEN "" ELSE s[1]

\* the user changes one more selector
SelectorChanges ==
    /\ selChanges < MaxSelChanges
    /\ selChanges' = selChanges + 1
    /\ UNCHANGED removes

\* the user clicks Remove once more
RemoveClicked ==
    /\ removes < MaxRemoves
    /\ removes' = removes + 1
    /\ UNCHANGED selChanges

\* ychrSelect change handler with species sp, genome g and Y chromosome y selected
YchrChanged(sp, g, y) ==
    /\ ampliconSelect' = IF sp # "" /\ g # "" /\ y # "" THEN First(Amplicons(sp)) ELSE ""
    /\ loadDisabled' = ~(sp # "" /\ g # "" /\ y # "")

\* genomeSelect change handler with species sp and genome g selected
GenomeChanged(sp, g) ==
    LET filled == sp # "" /\ g # "" /\ SpecificChrs(g) # <<>>
        y == IF filled THEN First(YChrs(sp)) ELSE ""
    IN  /\ ychrSelect' = y
        /\ IF filled THEN YchrChanged(sp, g, y)
           ELSE ampliconSelect' = "" /\ loadDisabled' = TRUE

\* speciesSelect change handler with species sp selected
SpeciesChanged(sp) ==
    LET filled == sp # "" /\ Genomes(sp) # <<>>
        g == IF filled THEN First(Genomes(sp)) ELSE ""
    IN  /\ genomeSelect' = g
        /\ IF filled THEN GenomeChanged(sp, g)
           ELSE ychrSelect' = "" /\ ampliconSelect' = "" /\ loadDisabled' = TRUE

SelectSpecies ==
    /\ SelectorChanges
    /\ \E sp \in Range(Species) :
          /\ sp # speciesSelect
          /\ speciesSelect' = sp
          /\ SpeciesChanged(sp)
    /\ UNCHANGED <<server, refVars, loads, fileVars, tableVars, alerts, chanVars, workerVars>>

SelectGenome ==
    /\ SelectorChanges
    /\ \E g \in Range(Genomes(speciesSelect)) :
          /\ g # genomeSelect
          /\ genomeSelect' = g
          /\ GenomeChanged(speciesSelect, g)
    /\ UNCHANGED <<server, speciesSelect, refVars, loads, fileVars, tableVars, alerts, chanVars, workerVars>>

SelectYchr ==
    /\ SelectorChanges
    /\ genomeSelect # ""
    /\ \E y \in Range(YChrs(speciesSelect)) :
          /\ y # ychrSelect
          /\ ychrSelect' = y
          /\ YchrChanged(speciesSelect, genomeSelect, y)
    /\ UNCHANGED <<server, speciesSelect, genomeSelect, refVars, loads, fileVars, tableVars, alerts, chanVars, workerVars>>

\* The amplicon selector offers one amplicon per species besides its disabled
\* placeholder, and its change handler (main.js 599-601) does nothing.

(***************************************************************************)
(* The load-data click handler (main.js 604-697).  An activation keeps the *)
(* selections it read at the click and the texts it has fetched; pc names  *)
(* the fetch it awaits.                                                    *)
(***************************************************************************)
IdleLoad ==
    [pc |-> "done", species |-> "", genome |-> "", ychr |-> "", amplicon |-> "",
     genomeContent |-> Undefined, ychrContent |-> Undefined, pending |-> {}]

\* the catch and finally blocks (main.js 691-696): alert, nothing else
LoadFailed(l) ==
    /\ loads' = [loads EXCEPT ![l] = IdleLoad]
    /\ alerts' = alerts + 1
    /\ UNCHANGED <<mainDataLoaded, loadedGenomeSig, loadedYchrSig, loadedAmpliconSig, loadDisabled>>

\* a load handler that adopts the genome and leaves the Y chromosome out
AssignGenomeOnly(l, ampliconContent) ==
    /\ loadedGenomeSig' = loads[l].genomeContent
    /\ loadedAmpliconSig' = ampliconContent
    /\ mainDataLoaded' = TRUE
    /\ loadDisabled' = TRUE
    /\ loads' = [loads EXCEPT ![l] = IdleLoad]
    /\ UNCHANGED <<alerts, loadedYchrSig>>

\* main.js 677-690: adopt the fetched texts
AssignLoaded(l, ampliconContent) ==
    /\ loadedGenomeSig' = loads[l].genomeContent
    /\ loadedYchrSig' = loads[l].ychrContent
    /\ loadedAmpliconSig' = ampliconContent
    /\ mainDataLoaded' = TRUE
    /\ loadDisabled' = TRUE
    /\ loads' = [loads EXCEPT ![l] = IdleLoad]
    /\ UNCHANGED alerts

\* main.js 604-624: the click, up to the await of the genome fetch
LoadClick ==
    /\ ~loadDisabled
    /\ Len(loads) < MaxLoadClicks
    /\ IF mainDataLoaded
       THEN /\ alerts' = alerts + 1
            /\ loads' = Append(loads, IdleLoad)
       ELSE /\ loads' = Append(loads,
                    [IdleLoad EXCEPT !.pc = "genome", !.species = speciesSelect,
                                     !.genome = genomeSelect, !.ychr = ychrSelect,
                                     !.amplicon = ampliconSelect])
            /\ UNCHANGED alerts
    /\ UNCHANGED <<server, userVars, selVars, refVars, fileVars, tableVars, chanVars, workerVars>>

\* main.js 624-633: the genome response arrives
GenomeFetched(l) ==
    /\ l \in DOMAIN loads
    /\ loads[l].pc = "genome"
    /\ LET path == GenomePath(loads[l].species, loads[l].genome)
       IN  IF ResponseOk(server, path)
           THEN /\ loads' = [loads EXCEPT ![l].pc = "ychr",
                                          ![l].genomeContent = ResponseText(server, path)]
                /\ UNCHANGED <<alerts, mainDataLoaded, loadedGenomeSig, loadedYchrSig,
                               loadedAmpliconSig, loadDisabled>>
           ELSE LoadFailed(l)
    /\ UNCHANGED <<server, userVars, speciesSelect, genomeSelect, ychrSelect, ampliconSelect,
                   specificChrsLoaded, fileVars, tableVars, chanVars, workerVars>>

\* main.js 633-663: the Y chromosome response arrives; the handler replaces
\* window.specificChrsLoaded and starts one fetch per chromosome
YchrFetched(l) ==
    /\ l \in DOMAIN loads
    /\ loads[l].pc = "ychr"
    /\ LET path == YchrPath(loads[l].species, loads[l].ychr)
       IN  IF ResponseOk(server, path) /\ KnownGenome(loads[l].species, loads[l].genome)
           THEN /\ loads' = [loads EXCEPT ![l].pc = "chrs",
                                          ![l].ychrContent = ResponseText(server, path),
                                          ![l].pending = Range(SpecificChrs(loads[l].genome))]
                /\ specificChrsLoaded' = EmptyObject
                /\ UNCHANGED <<alerts, mainDataLoaded, loadedGenomeSig, loadedYchrSig,
                               loadedAmpliconSig, loadDisabled>>
           ELSE /\ LoadFailed(l)
                /\ UNCHANGED specificChrsLoaded
    /\ UNCHANGED <<server, userVars, speciesSelect, genomeSelect, ychrSelect, ampliconSelect,
                   fileVars, tableVars, chanVars, workerVars>>

\* main.js 645-675: one chromosome response arrives and is stored in the
\* object window.specificChrsLoaded holds now; after the last one Promise.all
\* resolves and the handler goes on to the amplicon
ChrFetched(l) ==
    /\ l \in DOMAIN loads
    /\ loads[l].pc = "chrs"
    /\ \E chr \in loads[l].pending :
          LET path == ChrPath(loads[l].species, loads[l].genome, chr)
              text == IF ResponseOk(server, path) THEN ResponseText(server, path)
                      ELSE EmptyString
              left == loads[l].pending \ {chr}
          IN  /\ specificChrsLoaded' = SetKey(specificChrsLoaded, chr, text)
              /\ IF left # {}
                 THEN /\ loads' = [loads EXCEPT ![l].pending = left]
                      /\ UNCHANGED <<alerts, mainDataLoaded, loadedGenomeSig, loadedYchrSig,
                                     loadedAmpliconSig, loadDisabled>>
                 ELSE IF loads[l].amplicon # ""
                 THEN /\ loads' = [loads EXCEPT ![l].pending = {}, ![l].pc = "amplicon"]
                      /\ UNCHANGED <<alerts, mainDataLoaded, loadedGenomeSig, loadedYchrSig,
                                     loadedAmpliconSig, loadDisabled>>
                 ELSE AssignLoaded(l, Null)
    /\ UNCHANGED <<server, userVars, speciesSelect, genomeSelect, ychrSelect, ampliconSelect,
                   fileVars, tableVars, chanVars, workerVars>>

\* main.js 667-696: the amplicon response arrives
AmpliconFetched(l) ==
    /\ l \in DOMAIN loads
    /\ loads[l].pc = "amplicon"
    /\ LET path == AmpliconPath(loads[l].species, loads[l].amplicon)
       IN  IF ResponseOk(server, path)
           THEN AssignLoaded(l, ResponseText(server, path))
           ELSE LoadFailed(l)
    /\ UNCHANGED <<server, userVars, speciesSelect, genomeSelect, ychrSelect, ampliconSelect,
                   specificChrsLoaded, fileVars, tableVars, chanVars, workerVars>>

(***************************************************************************)
(* Uploads.  A file id is `file-<Date.now()>-<random>` (main.js 139, 202); *)
(* the n-th id generated in the session is FileId(n).                      *)
(***************************************************************************)
FileIdTable ==
    <<"file-1", "file-2", "file-3", "file-4", "file-5", "file-6", "file-7", "file-8",
      "file-9", "file-10", "file-11", "file-12", "file-13", "file-14", "file-15", "file-16",
      "file-17", "file-18", "file-19", "file-20">>
FileId(n) == FileIdTable[n]
IdNumbers == DOMAIN files
FileNumber(fileId) == CHOOSE n \in DOMAIN FileIdTable : FileIdTable[n] = fileId

\* The files a user can drop: two signature files, the second one a text the
\* computation cannot decode, and archives of eligible entries.
SigFileNames == {"a.sig", "bad.sig"}
ZipFileName == "z.zip"

\* `${Date.now()}-${sanitizeFileName(zipEntry.name)}` of the k-th extracted entry
UniqueZipFileNameTable ==
    <<"t-e1.sig", "t-bad2.sig", "t-e3.sig", "t-e4.sig", "t-e5.sig", "t-e6.sig">>
UniqueZipFileName(k) == UniqueZipFileNameTable[k]

\* the text of a sample file, named by the file
SigContent(fileName) == <<"sample", fileName>>
Malformed(sample) == sample \in {SigContent("bad.sig"), SigContent("t-bad2.sig")}

NewFile(kind, name, entries) ==
    [kind |-> kind, name |-> name, pc |-> IF kind = "zip" THEN "loading"
                                          ELSE IF kind = "sig" THEN "reading" ELSE "done",
     entries |-> entries, inDom |-> TRUE, percentage |-> 0, statusText |-> ""]

\* updateProgressBar (main.js 723-735): nothing when the element is gone
UpdateProgressBar(fs, n, percentage, statusText) ==
    IF fs[n].inDom
    THEN [fs EXCEPT ![n].percentage = percentage, ![n].statusText = statusText]
    ELSE fs

(***************************************************************************)
(* processSignature (main.js 326-411).  It has no await: it runs to its    *)
(* end in the step that calls it.  The operator gives what it leaves:      *)
(* the file rows, the active ids, the alerts, and the messages posted.     *)
(***************************************************************************)
\* main.js 360-371: one key per chromosome of the genome selected now
SpecificChrsContent(genome) ==
    [isObject |-> TRUE,
     at |-> [c \in AllChrs |->
               IF c \notin Range(SpecificChrs(genome)) THEN Undefined
               ELSE IF specificChrsLoaded.isObject /\ Truthy(specificChrsLoaded.at[c])
                    THEN specificChrsLoaded.at[c]
                    ELSE EmptyString]]

\* main.js 384-392
RequestData(n, fileName, sigContent) ==
    [type |-> "process-signature", fileId |-> FileId(n), fileName |-> fileName,
     sigContent |-> sigContent,
     genomeContent |-> loadedGenomeSig,
     ychrContent |-> loadedYchrSig,
     specificChrsContent |-> SpecificChrsContent(genomeSelect),
     ampliconContent |-> IF Truthy(loadedAmpliconSig) THEN loadedAmpliconSig ELSE Null]

\* A signature file so large that its text fits a string but the JSON text
\* of the request holding it does not.
HugeSigFileName == "huge.sig"

\* main.js 396: JSON.stringify(data) returns; it throws a RangeError when the
\* text it builds exceeds the longest string
Serializable(data) == data.sigContent # SigContent(HugeSigFileName)

\* main.js 332: the genome gate
GenomeLoaded == Truthy(loadedGenomeSig)
\* main.js 339: the Y chromosome gate
YchrLoaded == Truthy(loadedYchrSig)

\* processSignature without lines 332-344: it dispatches whatever is loaded
ProcessSignatureUngated(fs, active, n, fileName, sigContent) ==
    [files |-> UpdateProgressBar(UpdateProgressBar(fs, n, 10, "Starting..."), n, 40,
                                 "Preparing data for processing..."),
     active |-> active, alerts |-> alerts,
     post |-> <<RequestData(n, fileName, sigContent)>>]

\* processSignature without the try of lines 394-403: it posts the request
\* whether or not the request can be serialized
ProcessSignatureUnserialized(fs, active, n, fileName, sigContent) ==
    LET started == UpdateProgressBar(fs, n, 10, "Starting...")
    IN  IF ~GenomeLoaded
        THEN [files |-> UpdateProgressBar(started, n, 100, "Failed: Genome not loaded"),
              active |-> active \ {FileId(n)}, alerts |-> alerts + 1, post |-> <<>>]
        ELSE IF ~YchrLoaded
        THEN [files |-> UpdateProgressBar(started, n, 100, "Failed: Y Chromosome not loaded"),
              active |-> active \ {FileId(n)}, alerts |-> alerts + 1, post |-> <<>>]
        ELSE [files |-> UpdateProgressBar(started, n, 40, "Preparing data for processing..."),
              active |-> active, alerts |-> alerts,
              post |-> <<RequestData(n, fileName, sigContent)>>]

ProcessSignature(fs, active, n, fileName, sigContent) ==
    LET started == UpdateProgressBar(fs, n, 10, "Starting...")
    IN  IF ~GenomeLoaded
        THEN [files |-> UpdateProgressBar(started, n, 100, "Failed: Genome not loaded"),
              active |-> active \ {FileId(n)}, alerts |-> alerts + 1, post |-> <<>>]
        ELSE IF ~YchrLoaded
        THEN [files |-> UpdateProgressBar(started, n, 100, "Failed: Y Chromosome not loaded"),
              active |-> active \ {FileId(n)}, alerts |-> alerts + 1, post |-> <<>>]
        ELSE IF ~KnownGenome(speciesSelect, genomeSelect)
        THEN \* speciesData[...] is undefined: TypeError, the outer catch (405-410)
             [files |-> UpdateProgressBar(started, n, 100, "Failed"),
              active |-> active \ {FileId(n)}, alerts |-> alerts, post |-> <<>>]
        ELSE IF ~Serializable(RequestData(n, fileName, sigContent))
        THEN \* JSON.stringify throws: the inner catch (399-403)
             [files |-> UpdateProgressBar(
                            UpdateProgressBar(started, n, 40, "Preparing data for processing..."),
                            n, 100, "Failed: Data serialization error"),
              active |-> active \ {FileId(n)}, alerts |-> alerts, post |-> <<>>]
        ELSE [files |-> UpdateProgressBar(started, n, 40, "Preparing data for processing..."),
              active |-> active, alerts |-> alerts,
              post |-> <<RequestData(n, fileName, sigContent)>>]

\* the ids generated so far and those the archives being extracted will take
RECURSIVE EntriesLeft(_)
EntriesLeft(n) == IF n = 0 THEN 0 ELSE Cardinality(files[n].entries) + EntriesLeft(n - 1)
IdsInUse == Len(files) + EntriesLeft(Len(files))

\* main.js 130-178: a file is added; its row and progress bar are created
AddedFileUpTo(max) ==
    /\ IdsInUse < max
    /\ \/ \E name \in SigFileNames : files' = Append(files, NewFile("sig", name, {}))
       \/ \E entries \in 0..(max - IdsInUse - 1) :
             files' = Append(files, NewFile("zip", ZipFileName, 1..entries))
    /\ activeFileIds' = activeFileIds \cup {FileId(Len(files) + 1)}
    /\ UNCHANGED <<server, userVars, selVars, refVars, loads, tableVars, alerts, chanVars, workerVars>>

AddedFile == AddedFileUpTo(MaxFiles)

\* main.js 130-178: the huge signature file is added
AddedHugeFile ==
    /\ IdsInUse < MaxPipelineFiles
    /\ files' = Append(files, NewFile("sig", HugeSigFileName, {}))
    /\ activeFileIds' = activeFileIds \cup {FileId(Len(files) + 1)}
    /\ UNCHANGED <<server, userVars, selVars, refVars, loads, tableVars, alerts, chanVars, workerVars>>

\* main.js 248-266: file.text() resolves and processSignature runs
SigRead(n) ==
    /\ n \in IdNumbers
    /\ files[n].kind = "sig" /\ files[n].pc = "reading"
    /\ LET r == ProcessSignature(files, activeFileIds, n, files[n].name,
                                 SigContent(files[n].name))
       IN  /\ files' = [r.files EXCEPT ![n].pc = "done"]
           /\ activeFileIds' = r.active
           /\ alerts' = r.alerts
           /\ toWorker' = toWorker \o r.post
    /\ UNCHANGED <<server, userVars, selVars, refVars, loads, tableVars, toWorkerRead, toMain, toMainRead,
                   workerVars>>

\* main.js 267-273: file.text() rejects
SigReadFailed(n) ==
    /\ n \in IdNumbers
    /\ files[n].kind = "sig" /\ files[n].pc = "reading"
    /\ files' = [UpdateProgressBar(files, n, 100, "Failed") EXCEPT ![n].pc = "done"]
    /\ activeFileIds' = activeFileIds \ {FileId(n)}
    /\ UNCHANGED <<server, userVars, selVars, refVars, loads, tableVars, alerts, chanVars, workerVars>>

\* the zip branch without the test of lines 185-187
ZipLoadedUntested(n) ==
    /\ n \in IdNumbers
    /\ files[n].kind = "zip" /\ files[n].pc = "loading"
    /\ files' = [files EXCEPT ![n].pc = IF files[n].entries = {} THEN "done" ELSE "extracting"]
    /\ UNCHANGED activeFileIds
    /\ UNCHANGED <<server, userVars, selVars, refVars, loads, tableVars, alerts, chanVars, workerVars>>

\* main.js 182-195, 240-246: JSZip.loadAsync resolves; with no eligible entry
\* the handler throws into its catch (as it does when loadAsync rejects), else
\* it starts extracting every entry; entries holds the entries not yet extracted
ZipLoaded(n) ==
    /\ n \in IdNumbers
    /\ files[n].kind = "zip" /\ files[n].pc = "loading"
    /\ IF files[n].entries = {}
       THEN /\ files' = [UpdateProgressBar(files, n, 100, "Failed") EXCEPT ![n].pc = "done"]
            /\ activeFileIds' = activeFileIds \ {FileId(n)}
       ELSE /\ files' = [files EXCEPT ![n].pc = "extracting"]
            /\ UNCHANGED activeFileIds
    /\ UNCHANGED <<server, userVars, selVars, refVars, loads, tableVars, alerts, chanVars, workerVars>>

\* main.js 195-239: the text of one entry arrives, in any order; the entry
\* gets its own id, row and progress bar and processSignature runs for it.
\* After the last entry Promise.all resolves and the archive's handler ends.
EntryExtracted(n) ==
    /\ n \in IdNumbers
    /\ files[n].kind = "zip" /\ files[n].pc = "extracting"
    /\ \E k \in files[n].entries :
          LET left == files[n].entries \ {k}
              e == Len(files) + 1
              name == UniqueZipFileName(k)
              added == Append([files EXCEPT ![n].entries = left,
                                            ![n].pc = IF left = {} THEN "done"
                                                      ELSE "extracting"],
                              NewFile("entry", name, {}))
              r == ProcessSignature(added, activeFileIds \cup {FileId(e)}, e, name,
                                    SigContent(name))
          IN  /\ files' = r.files
              /\ activeFileIds' = r.active
              /\ alerts' = r.alerts
              /\ toWorker' = toWorker \o r.post
    /\ UNCHANGED <<server, userVars, selVars, refVars, loads, tableVars, toWorkerRead, toMain, toMainRead,
                   workerVars>>

(***************************************************************************)
(* The results table.  A row is the sequence of its cells' texts; `from`   *)
(* records the file id whose result the row was appended for (the DOM row  *)
(* itself carries no id: main.js 439 and 444 are commented out).           *)
(***************************************************************************)
\* removeTableRow (main.js 301-323); fileId is "" where the caller passes null
RemoveTableRow(rows, sampleName, fileId) ==
    LET Stays(row) ==
            ~ /\ Len(row.cells) > 1
              /\ IF fileId # "" THEN row.cells[1] = fileId ELSE row.cells[2] = sampleName
    IN  SelectSeq(rows, Stays)

\* a removeTableRow without its last three lines
DisplayKept(rows, display) == display

\* main.js 320-322
DisplayAfterRemove(rows, display) == IF rows = <<>> THEN "none" ELSE display

\* the `removedfile` listener (main.js 277-295) for a Dropzone file: file.id is
\* undefined, no element has the id "undefined", so only line 294 acts
RemovedFile(rows, fileName) == RemoveTableRow(rows, fileName, "")

\* removeChild(fileRow) (main.js 165, 225): the row and its progress bar leave
\* the document, and nothing reads them again
RowRemoved(file) == [file EXCEPT !.inDom = FALSE, !.percentage = 0, !.statusText = ""]

\* the requests posted, without those of a file id that still wait
WithoutWaiting(fileId) ==
    LET Others(d) == d.fileId # fileId
    IN  SubSeq(toWorker, 1, toWorkerRead)
            \o SelectSeq(SubSeq(toWorker, toWorkerRead + 1, Len(toWorker)), Others)

\* a Remove that also withdraws the file's waiting request
RemoveUploadedAndCancel(n) ==
    /\ RemoveClicked
    /\ n \in IdNumbers
    /\ files[n].kind # "entry" /\ files[n].inDom
    /\ files' = [files EXCEPT ![n] = RowRemoved(files[n])]
    /\ activeFileIds' = activeFileIds \ {FileId(n)}
    /\ toWorker' = WithoutWaiting(FileId(n))
    /\ UNCHANGED <<server, selVars, refVars, loads, tableVars, alerts, toWorkerRead, toMain,
                   toMainRead, workerVars>>

\* main.js 163-176: Remove is clicked on the row of an uploaded file
RemoveUploaded(n) ==
    /\ RemoveClicked
    /\ n \in IdNumbers
    /\ files[n].kind # "entry" /\ files[n].inDom
    /\ files' = [files EXCEPT ![n] = RowRemoved(files[n])]
    /\ activeFileIds' = activeFileIds \ {FileId(n)}
    /\ LET byName == RemovedFile(tableRows, files[n].name)
           byId == RemoveTableRow(byName, files[n].name, FileId(n))
       IN  /\ tableRows' = byId
           /\ containerDisplay' = DisplayAfterRemove(byId, containerDisplay)
    /\ UNCHANGED <<server, selVars, refVars, loads, tableHead, download, alerts, chanVars,
                   workerVars>>

\* main.js 224-229: Remove is clicked on the row of an extracted entry
RemoveExtracted(n) ==
    /\ RemoveClicked
    /\ n \in IdNumbers
    /\ files[n].kind = "entry" /\ files[n].inDom
    /\ files' = [files EXCEPT ![n] = RowRemoved(files[n])]
    /\ activeFileIds' = activeFileIds \ {FileId(n)}
    /\ LET byId == RemoveTableRow(tableRows, files[n].name, FileId(n))
       IN  /\ tableRows' = byId
           /\ containerDisplay' = DisplayAfterRemove(byId, containerDisplay)
    /\ UNCHANGED <<server, selVars, refVars, loads, tableHead, download, alerts, chanVars,
                   workerVars>>

\* a JavaScript value as a cell's text, with main.js 449's `|| 'N/A'`
NumberZero == "#0"
CellText(value) == IF value \in {"", NumberZero} THEN "N/A" ELSE value

\* a displayResultsInTable that makes a header row for every record
DisplayResultsWithNewHeader(result, fileId) ==
    /\ tableHead' = Append(tableHead, [i \in DOMAIN result |-> result[i][1]])
    /\ tableRows' = Append(tableRows,
                           [from |-> fileId,
                            cells |-> [i \in DOMAIN result |-> CellText(result[i][2])]])
    /\ containerDisplay' = "block"
    /\ activeFileIds' = activeFileIds \ {fileId}
    /\ UNCHANGED download

\* a displayResultsInTable without its last line
DisplayResultsKeepsActive(result, fileId) ==
    /\ tableHead' = IF tableHead = <<>>
                    THEN <<[i \in DOMAIN result |-> result[i][1]]>>
                    ELSE tableHead
    /\ tableRows' = Append(tableRows,
                           [from |-> fileId,
                            cells |-> [i \in DOMAIN result |-> CellText(result[i][2])]])
    /\ containerDisplay' = "block"
    /\ UNCHANGED <<activeFileIds, download>>

\* displayResultsInTable (main.js 414-459); result is the sequence of the
\* object's <<key, value>> pairs in key order
DisplayResultsInTable(result, fileId) ==
    /\ tableHead' = IF tableHead = <<>>
                    THEN <<[i \in DOMAIN result |-> result[i][1]]>>
                    ELSE tableHead
    /\ tableRows' = Append(tableRows,
                           [from |-> fileId,
                            cells |-> [i \in DOMAIN result |-> CellText(result[i][2])]])
    /\ containerDisplay' = "block"
    /\ activeFileIds' = activeFileIds \ {fileId}
    /\ UNCHANGED download

(***************************************************************************)
(* exportTableToTSV (main.js 462-487).  The text of the file is a sequence *)
(* of characters, as are the texts of the cells it is made of.             *)
(***************************************************************************)
TAB == "\t"
NL == "\n"

\* Array.prototype.join: the texts with sep between them, "" for no text
RECURSIVE Join(_, _)
Join(texts, sep) ==
    IF texts = <<>> THEN <<>>
    ELSE IF Len(texts) = 1 THEN texts[1]
    ELSE texts[1] \o <<sep>> \o Join(Tail(texts), sep)

\* querySelectorAll('thead th') (main.js 467): the header cells of every
\* header row, in document order
RECURSIVE ThTexts(_)
ThTexts(head) == IF head = <<>> THEN <<>> ELSE Head(head) \o ThTexts(Tail(head))

\* main.js 464-479
ExportTableToTSV(head, rows) ==
    LET headers == Join(ThTexts(head), TAB) \o <<NL>>
        lines == [r \in DOMAIN rows |-> Join(rows[r].cells, TAB)]
    IN  headers \o Join(lines, NL)

\* main.js 482-486, 492: the export button is clicked
ExportClicked ==
    /\ download' = ExportTableToTSV(tableHead, tableRows)
    /\ UNCHANGED <<server, userVars, selVars, refVars, loads, fileVars, tableHead, tableRows,
                   containerDisplay, alerts, chanVars, workerVars>>

(***************************************************************************)
(* worker.onmessage (main.js 15-47): the UI thread handles the next        *)
(* message of the worker.                                                  *)
(***************************************************************************)
Message(type, fileId, percentage, statusText, result, error) ==
    [type |-> type, fileId |-> fileId, percentage |-> percentage,
     statusText |-> statusText, result |-> result, error |-> error]

StartsWithFailed(statusText) ==
    statusText \in {"Failed", "Failed: Genome not loaded", "Failed: Y Chromosome not loaded",
                    "Failed: Data serialization error"}

\* main.js 27-39
OnProgress(m) ==
    IF m.fileId \notin activeFileIds
    THEN UNCHANGED <<files, alerts>>
    ELSE /\ files' = UpdateProgressBar(files, FileNumber(m.fileId), m.percentage, m.statusText)
         /\ alerts' = IF m.percentage = 100 /\ StartsWithFailed(m.statusText)
                      THEN alerts + 1 ELSE alerts

\* the result branch without its test of activeFileIds
OnResultOfAnyId(m) == DisplayResultsInTable(m.result, m.fileId)

\* main.js 40-46
OnResult(m) ==
    IF m.fileId \in activeFileIds
    THEN DisplayResultsInTable(m.result, m.fileId)
    ELSE UNCHANGED <<tableVars, activeFileIds>>

MainOnMessage ==
    /\ toMainRead < Len(toMain)
    /\ toMainRead' = toMainRead + 1
    /\ LET m == toMain[toMainRead + 1]
       IN  CASE m.type = "pyodide-ready" ->
                  UNCHANGED <<fileVars, tableVars, alerts>>
             [] m.type = "error" ->
                  /\ alerts' = alerts + 1
                  /\ UNCHANGED <<fileVars, tableVars>>
             [] m.type = "progress" ->
                  /\ OnProgress(m)
                  /\ UNCHANGED <<activeFileIds, tableVars>>
             [] m.type = "result" ->
                  /\ OnResult(m)
                  /\ UNCHANGED <<files, alerts>>
    /\ UNCHANGED <<server, userVars, selVars, refVars, loads, toWorker, toWorkerRead, toMain, workerVars>>

(***************************************************************************)
(* The worker (worker.js).  initializePyodide (9-35) loads the runtime,    *)
(* then its packages and snipe.py, and posts pyodide-ready, or posts error *)
(* from wherever it failed.  pyodide is "undefined" until line 12 assigns  *)
(* it, "loaded" until snipe.py has defined process_sample, then "ready".   *)
(***************************************************************************)
Post(msgs) == toMain' = toMain \o msgs

\* worker.js 12: loadPyodide resolves
PyodideLoaded ==
    /\ initState = "initializing" /\ pyodide = "undefined"
    /\ pyodide' = "loaded"
    /\ UNCHANGED <<server, userVars, selVars, refVars, loads, fileVars, tableVars, alerts, chanVars,
                   initState, pyGlobals, handlers>>

\* an initializePyodide that reports its end twice
InitSucceededTwice ==
    /\ initState = "initializing" /\ pyodide = "loaded"
    /\ pyodide' = "ready"
    /\ initState' = "ready"
    /\ Post(<<Message("pyodide-ready", "", 0, "", <<>>, ""),
              Message("pyodide-ready", "", 0, "", <<>>, "")>>)
    /\ UNCHANGED <<server, userVars, selVars, refVars, loads, fileVars, tableVars, alerts, toWorker,
                   toWorkerRead, toMainRead, pyGlobals, handlers>>

\* worker.js 14-28: packages and snipe.py are in; pyodide-ready is posted
InitSucceeded ==
    /\ initState = "initializing" /\ pyodide = "loaded"
    /\ pyodide' = "ready"
    /\ initState' = "ready"
    /\ Post(<<Message("pyodide-ready", "", 0, "", <<>>, "")>>)
    /\ UNCHANGED <<server, userVars, selVars, refVars, loads, fileVars, tableVars, alerts, toWorker,
                   toWorkerRead, toMainRead, pyGlobals, handlers>>

\* an initializePyodide that posts the error and goes on
InitFailedAndGoesOn ==
    /\ initState = "initializing"
    /\ Len(toMain) < 1
    /\ Post(<<Message("error", "", 0, "", <<>>, "Pyodide Initialization Error")>>)
    /\ UNCHANGED <<server, userVars, selVars, refVars, loads, fileVars, tableVars, alerts, toWorker,
                   toWorkerRead, toMainRead, pyodide, initState, pyGlobals, handlers>>

\* worker.js 29-32: any await or call of 12-25 throws; error is posted
InitFailed ==
    /\ initState = "initializing"
    /\ initState' = "failed"
    /\ Post(<<Message("error", "", 0, "", <<>>, "Pyodide Initialization Error")>>)
    /\ UNCHANGED <<server, userVars, selVars, refVars, loads, fileVars, tableVars, alerts, toWorker,
                   toWorkerRead, toMainRead, pyodide, pyGlobals, handlers>>

\* JSON.stringify of a text, of null and of a chromosome object
JsonStringify(v) == [json |-> v]

\* worker.js 50-55
SetGlobals(d) ==
    [genome_sig_str |-> JsonStringify(d.genomeContent),
     ychr_sig_str |-> JsonStringify(d.ychrContent),
     specific_chrs_snipe_sigs |-> JsonStringify(d.specificChrsContent),
     amplicon_sig_str |-> JsonStringify(d.ampliconContent),
     sample_sig_str |-> JsonStringify(d.sigContent),
     fileName |-> d.fileName]

\* a worker whose first milestone is 10 instead of 50
ProgressFrom10(fileId, percentage, statusText) ==
    Message("progress", fileId, IF percentage = 50 THEN 10 ELSE percentage, statusText,
            <<>>, "")

Progress(fileId, percentage, statusText) ==
    Message("progress", fileId, percentage, statusText, <<>>, "")
\* a worker whose failure report empties the bar
FailedAt0(fileId, error) == Message("progress", fileId, 0, "Failed", <<>>, error)

Failed(fileId, error) == Message("progress", fileId, 100, "Failed", <<>>, error)

\* worker.js 37-129: the next request is taken; the handler runs up to its
\* await of runPythonAsync, or into its catch when self.pyodide is undefined
WorkerOnMessage ==
    /\ toWorkerRead < Len(toWorker)
    /\ toWorkerRead' = toWorkerRead + 1
    /\ LET d == toWorker[toWorkerRead + 1]
           first == Progress(d.fileId, 50, "Setting up Python environment...")
       IN  IF pyodide = "undefined"
           THEN /\ Post(<<first, Failed(d.fileId, "TypeError")>>)
                /\ handlers' = Append(handlers, [pc |-> "done", result |-> <<>>])
                /\ UNCHANGED pyGlobals
           ELSE /\ pyGlobals' = SetGlobals(d)
                /\ Post(<<first, Progress(d.fileId, 60, "Running Python processing...")>>)
                /\ handlers' = Append(handlers, [pc |-> "awaiting", result |-> <<>>])
    /\ UNCHANGED <<server, userVars, selVars, refVars, loads, fileVars, tableVars, alerts, toWorker,
                   toMainRead, pyodide, initState>>

\* parse_json_string (worker.js 66-74) of a stringified text: the decoded
\* text, or None when the text is not JSON
ParseJsonString(str) == IF Malformed(str.json) THEN Null ELSE str.json

\* The computation of snipe.py.  It raises when the sample could not be
\* decoded; else it returns the fields it has for the sample.
ProcessSample(globals) ==
    IF ParseJsonString(globals.sample_sig_str) = Null
    THEN [raised |-> TRUE, result |-> <<>>]
    ELSE [raised |-> FALSE,
          result |-> << <<"SRA Experiment accession", globals.fileName>>,
                        <<"BioSample accession", globals.fileName>>,
                        <<"BioProject accession", globals.fileName>>,
                        <<"SRA Assay type", "WGS">> >>]

\* the keys of result_json (worker.js 87-124), in order
ResultFields ==
    <<"SRA Experiment accession", "BioSample accession", "BioProject accession",
      "SRA Assay type", "Number of bases", "Library Layout", "Total unique k-mers",
      "Genomic unique k-mers", "Exome unique k-mers", "Genome coverage index",
      "Exome coverage index", "k-mer total abundance", "k-mer mean abundance",
      "Genomic k-mers total abundance", "Genomic k-mers mean abundance",
      "Genomic k-mers median abundance", "Exome k-mers total abundance",
      "Exome k-mers mean abundance", "Exome k-mers median abundance", "Mapping index",
      "Predicted contamination index", "Empirical contamination index",
      "Sequencing errors index", "Autosomal k-mer mean abundance CV",
      "Exome enrichment score", "Predicted Assay type", "chrX Ploidy score",
      "chrY Coverage score", "Median-trimmed relative coverage", "Relative mean abundance",
      "Relative coverage", "Coverage of 1fold more sequencing",
      "Coverage of 2fold more sequencing", "Coverage of 5fold more sequencing",
      "Coverage of 9fold more sequencing", "Relative total abundance">>

\* dict.get(key, "N/A")
Get(dict, key) ==
    IF \E i \in DOMAIN dict : dict[i][1] = key
    THEN dict[CHOOSE i \in DOMAIN dict : dict[i][1] = key][2]
    ELSE "N/A"

\* worker.js 87-126
ResultJson(result) == [i \in DOMAIN ResultFields |-> <<ResultFields[i], Get(result, ResultFields[i])>>]

\* worker.js 76-126: the Python code runs, reading the globals as they are now
RunPython(globals) ==
    LET r == ProcessSample(globals)
    IN  IF pyodide # "ready" \/ r.raised
        THEN [raised |-> TRUE, result |-> <<>>]
        ELSE [raised |-> FALSE, result |-> ResultJson(r.result)]

\* PyProxy.toJs() with no dict_converter (worker.js 132): a dict becomes a Map
ToJs(dict) == [class |-> "Map", entries |-> dict]

\* JSON.parse(JSON.stringify(value)) (worker.js 136): the own enumerable
\* properties; a Map has none
JsonRoundTrip(value) == IF value.class = "Map" THEN <<>> ELSE value.entries

\* The awaits of runPythonAsync are served by one event loop: the coroutines
\* run, and their awaits end, in the order the handlers reached the await.
Earlier(h) == {g \in DOMAIN handlers : g < h}

\* the Python code of activation h runs
PythonRuns(h) ==
    /\ h \in DOMAIN handlers
    /\ handlers[h].pc = "awaiting"
    /\ \A g \in Earlier(h) : handlers[g].pc # "awaiting"
    /\ LET r == RunPython(pyGlobals)
       IN  handlers' = [handlers EXCEPT ![h] = [pc |-> IF r.raised THEN "raised" ELSE "returned",
                                                result |-> r.result]]
    /\ UNCHANGED <<server, userVars, selVars, refVars, loads, fileVars, tableVars, alerts, chanVars,
                   pyodide, initState, pyGlobals>>

\* a handler whose catch also runs after the result was posted
HandlerResumesIntoCatch(h) ==
    /\ h \in DOMAIN handlers
    /\ handlers[h].pc \in {"returned", "raised"}
    /\ \A g \in Earlier(h) : handlers[g].pc = "done"
    /\ LET fileId == toWorker[h].fileId
       IN  Post(<<Progress(fileId, 100, "Completed"),
                  Message("result", fileId, 0, "", <<>>, ""),
                  Failed(fileId, "Error")>>)
    /\ handlers' = [handlers EXCEPT ![h] = [pc |-> "done", result |-> <<>>]]
    /\ UNCHANGED <<server, userVars, selVars, refVars, loads, fileVars, tableVars, alerts, toWorker,
                   toWorkerRead, toMainRead, pyodide, initState, pyGlobals>>

\* a worker whose awaits end in any order
HandlerResumesInAnyOrder(h) ==
    /\ h \in DOMAIN handlers
    /\ handlers[h].pc \in {"returned", "raised"}
    /\ LET fileId == toWorker[h].fileId
       IN  IF handlers[h].pc = "returned"
           THEN Post(<<Progress(fileId, 100, "Completed"),
                       Message("result", fileId, 0, "",
                               JsonRoundTrip(ToJs(handlers[h].result)), "")>>)
           ELSE Post(<<Failed(fileId, "PythonError")>>)
    /\ handlers' = [handlers EXCEPT ![h] = [pc |-> "done", result |-> <<>>]]
    /\ UNCHANGED <<server, userVars, selVars, refVars, loads, fileVars, tableVars, alerts, toWorker,
                   toWorkerRead, toMainRead, pyodide, initState, pyGlobals>>

\* worker.js 129-146: the await of activation h ends
HandlerResumes(h) ==
    /\ h \in DOMAIN handlers
    /\ handlers[h].pc \in {"returned", "raised"}
    /\ \A g \in Earlier(h) : handlers[g].pc = "done"
    /\ LET fileId == toWorker[h].fileId
       IN  IF handlers[h].pc = "returned"
           THEN Post(<<Progress(fileId, 100, "Completed"),
                       Message("result", fileId, 0, "",
                               JsonRoundTrip(ToJs(handlers[h].result)), "")>>)
           ELSE Post(<<Failed(fileId, "PythonError")>>)
    /\ handlers' = [handlers EXCEPT ![h] = [pc |-> "done", result |-> <<>>]]
    /\ UNCHANGED <<server, userVars, selVars, refVars, loads, fileVars, tableVars, alerts, toWorker,
                   toWorkerRead, toMainRead, pyodide, initState, pyGlobals>>

Next ==
    \/ SelectSpecies
    \/ SelectGenome
    \/ SelectYchr
    \/ LoadClick
    \/ \E l \in DOMAIN loads : GenomeFetched(l)
    \/ \E l \in DOMAIN loads : YchrFetched(l)
    \/ \E l \in DOMAIN loads : ChrFetched(l)
    \/ \E l \in DOMAIN loads : AmpliconFetched(l)
    \/ AddedFile
    \/ AddedHugeFile
    \/ \E n \in IdNumbers : SigRead(n)
    \/ \E n \in IdNumbers : SigReadFailed(n)
    \/ \E n \in IdNumbers : ZipLoaded(n)
    \/ \E n \in IdNumbers : EntryExtracted(n)
    \/ \E n \in IdNumbers : RemoveUploaded(n)
    \/ \E n \in IdNumbers : RemoveExtracted(n)
    \/ MainOnMessage
    \/ PyodideLoaded
    \/ InitSucceeded
    \/ InitFailed
    \/ WorkerOnMessage
    \/ \E h \in DOMAIN handlers : PythonRuns(h)
    \/ \E h \in DOMAIN handlers : HandlerResumes(h)
    \/ ExportClicked

Spec == Init /\ [][Next]_vars

(***************************************************************************)
(* The whole state space is the product of three nearly independent parts, *)
(* so each part is also run on its own, from states the others leave.      *)
(*                                                                         *)
(* The loader on its own: the selectors, the load-data handler, and the    *)
(* upload of single signature files, whose requests show what a dispatch   *)
(* reads of the loaded references.  The worker does not run.               *)
(***************************************************************************)
AddedSigFile ==
    /\ files' \in {Append(files, NewFile("sig", name, {})) : name \in SigFileNames}
    /\ AddedFileUpTo(MaxLoaderFiles)

NextLoader ==
    \/ SelectSpecies
    \/ SelectGenome
    \/ SelectYchr
    \/ LoadClick
    \/ \E l \in DOMAIN loads : GenomeFetched(l)
    \/ \E l \in DOMAIN loads : YchrFetched(l)
    \/ \E l \in DOMAIN loads : ChrFetched(l)
    \/ \E l \in DOMAIN loads : AmpliconFetched(l)
    \/ AddedSigFile
    \/ \E n \in IdNumbers : SigRead(n)

SpecLoader == Init /\ [][NextLoader]_vars

(***************************************************************************)
(* States the loader and the worker's initialization leave.                *)
(***************************************************************************)
\* window.specificChrsLoaded once every chromosome of genome g has arrived
ChrsFetched(srv, sp, g) ==
    [isObject |-> TRUE,
     at |-> [c \in AllChrs |->
               IF c \notin Range(SpecificChrs(g)) THEN Undefined
               ELSE IF ResponseOk(srv, ChrPath(sp, g, c))
                    THEN ResponseText(srv, ChrPath(sp, g, c))
                    ELSE EmptyString]]

\* nothing uploaded, nothing dispatched, nothing displayed
NothingUploaded ==
    /\ removes = 0
    /\ activeFileIds = {}
    /\ files = <<>>
    /\ tableHead = <<>>
    /\ tableRows = <<>>
    /\ containerDisplay = ""
    /\ download = NoDownload
    /\ toWorker = <<>>
    /\ toWorkerRead = 0
    /\ pyGlobals = NoGlobals
    /\ handlers = <<>>

\* the page as constructed, served by srv
Constructed(srv) ==
    /\ server = srv
    /\ speciesSelect = ""
    /\ genomeSelect = ""
    /\ ychrSelect = ""
    /\ ampliconSelect = ""
    /\ loadDisabled = TRUE
    /\ selChanges = 0
    /\ mainDataLoaded = FALSE
    /\ loadedGenomeSig = Undefined
    /\ loadedYchrSig = Undefined
    /\ loadedAmpliconSig = Undefined
    /\ specificChrsLoaded = NoObject
    /\ loads = <<>>
    /\ alerts = 0

\* the page after species sp was selected and Load Data clicked and completed
LoaderLeaves(srv, sp) ==
    LET g == First(Genomes(sp))
        y == First(YChrs(sp))
        a == First(Amplicons(sp))
    IN  /\ server = srv
        /\ speciesSelect = sp
        /\ genomeSelect = g
        /\ ychrSelect = y
        /\ ampliconSelect = a
        /\ loadDisabled = TRUE
        /\ selChanges = 1
        /\ mainDataLoaded = TRUE
        /\ loadedGenomeSig = ResponseText(srv, GenomePath(sp, g))
        /\ loadedYchrSig = ResponseText(srv, YchrPath(sp, y))
        /\ loadedAmpliconSig = ResponseText(srv, AmpliconPath(sp, a))
        /\ specificChrsLoaded = ChrsFetched(srv, sp, g)
        /\ loads = <<IdleLoad>>
        /\ alerts = 0

\* the worker as started
WorkerStarted ==
    /\ pyodide = "undefined"
    /\ initState = "initializing"
    /\ toMain = <<>>
    /\ toMainRead = 0

\* the worker after initializePyodide succeeded and the UI thread has
\* handled its pyodide-ready
WorkerReady ==
    /\ pyodide = "ready"
    /\ initState = "ready"
    /\ toMain = <<Message("pyodide-ready", "", 0, "", <<>>, "")>>
    /\ toMainRead = 1

(***************************************************************************)
(* The gate on its own: uploads while no usable reference is loaded, from  *)
(* the page as constructed and from the page after a load from the faulty  *)
(* server, whose Y chromosome file is empty.  No request is ever posted,   *)
(* so the ready worker has nothing to run on and posts nothing.            *)
(***************************************************************************)
InitGate ==
    /\ Constructed("complete") \/ LoaderLeaves("faulty", "dog")
    /\ WorkerReady
    /\ NothingUploaded

NextGate ==
    \/ AddedFile
    \/ \E n \in IdNumbers : SigRead(n)
    \/ \E n \in IdNumbers : SigReadFailed(n)
    \/ \E n \in IdNumbers : ZipLoaded(n)
    \/ \E n \in IdNumbers : EntryExtracted(n)
    \/ \E n \in IdNumbers : RemoveUploaded(n)
    \/ \E n \in IdNumbers : RemoveExtracted(n)

SpecGate == InitGate /\ [][NextGate]_vars

(***************************************************************************)
(* The processing pipeline on its own: uploads, dispatch, the worker's     *)
(* message handler, its messages and the results table, from the page      *)
(* after a load from the complete server and with the worker ready.        *)
(***************************************************************************)
InitPipeline ==
    /\ LoaderLeaves("complete", "human")
    /\ WorkerReady
    /\ NothingUploaded

AddedSample == AddedFileUpTo(MaxPipelineFiles)

NextPipeline ==
    \/ AddedSample
    \/ \E n \in IdNumbers : SigRead(n)
    \/ \E n \in IdNumbers : SigReadFailed(n)
    \/ \E n \in IdNumbers : ZipLoaded(n)
    \/ \E n \in IdNumbers : EntryExtracted(n)
    \/ \E n \in IdNumbers : RemoveUploaded(n)
    \/ \E n \in IdNumbers : RemoveExtracted(n)
    \/ MainOnMessage
    \/ WorkerOnMessage
    \/ \E h \in DOMAIN handlers : PythonRuns(h)
    \/ \E h \in DOMAIN handlers : HandlerResumes(h)

SpecPipeline == InitPipeline /\ [][NextPipeline]_vars

(***************************************************************************)
(* The dispatch on its own: uploads, archive extraction, processSignature  *)
(* and removals from the page after a load from the complete server.  The  *)
(* requests posted stay in the channel; the worker does not take them.     *)
(***************************************************************************)
NextDispatch ==
    \/ AddedSample
    \/ AddedHugeFile
    \/ \E n \in IdNumbers : SigRead(n)
    \/ \E n \in IdNumbers : SigReadFailed(n)
    \/ \E n \in IdNumbers : ZipLoaded(n)
    \/ \E n \in IdNumbers : EntryExtracted(n)
    \/ \E n \in IdNumbers : RemoveUploaded(n)
    \/ \E n \in IdNumbers : RemoveExtracted(n)

SpecDispatch == InitPipeline /\ [][NextDispatch]_vars

(***************************************************************************)
(* The worker's start on its own: initializePyodide succeeding or failing  *)
(* at any of its awaits while signature files are dropped, dispatched and  *)
(* handled, from the page after a load from the complete server.           *)
(***************************************************************************)
InitStart ==
    /\ LoaderLeaves("complete", "human")
    /\ WorkerStarted
    /\ NothingUploaded

NextStart ==
    \/ AddedSigFile
    \/ \E n \in IdNumbers : SigRead(n)
    \/ MainOnMessage
    \/ PyodideLoaded
    \/ InitSucceeded
    \/ InitFailed
    \/ WorkerOnMessage
    \/ \E h \in DOMAIN handlers : PythonRuns(h)
    \/ \E h \in DOMAIN handlers : HandlerResumes(h)

SpecStart == InitStart /\ [][NextStart]_vars

(***************************************************************************)
(* The generation of file ids on its own (main.js 139-140, 202-203).  Here *)
(* an id is the triple of the parts of `file-${Date.now()}-${suffix}`, and *)
(* a file keeps beside its row the id and the time it was generated at.    *)
(* Date.now() never goes back; Math.random() is any of its values.         *)
(***************************************************************************)
\* Math.random().toString(36).substr(2, 9): two of the texts it can give
RandomSuffixes == {"k3x9", "q7b2"}

\* `file-${now}-${suffix}`
GeneratedFileId(now, suffix) == <<"file", now, suffix>>

\* Date.now() at the last id generated
LastNow == IF files = <<>> THEN 1 ELSE files[Len(files)].now

\* main.js 139-140 (kind "sig") and 202-203 (kind "entry"): an id is
\* generated at time now and added to activeFileIds
IdGenerated(kind, name) ==
    /\ Len(files) < MaxGeneratedIds
    /\ \E now \in LastNow..MaxTime, suffix \in RandomSuffixes :
          /\ files' = Append(files, [id |-> GeneratedFileId(now, suffix), now |-> now]
                                        @@ NewFile(kind, name, {}))
          /\ activeFileIds' = activeFileIds \cup {GeneratedFileId(now, suffix)}
    /\ UNCHANGED <<server, userVars, selVars, refVars, loads, tableVars, alerts, chanVars, workerVars>>

UploadIdGenerated == IdGenerated("sig", "a.sig")
EntryIdGenerated == files # <<>> /\ IdGenerated("entry", UniqueZipFileName(1))

InitIds ==
    /\ Constructed("complete")
    /\ WorkerReady
    /\ NothingUploaded

NextIds ==
    \/ UploadIdGenerated
    \/ EntryIdGenerated

SpecIds == InitIds /\ [][NextIds]_vars

(***************************************************************************)
(* Properties.                                                             *)
(***************************************************************************)
\* processSignature runs for file n in this step: the text of an uploaded
\* signature file arrived, or n is the entry extracted in this step
ProcessSignatureRuns(n) ==
    \/ n \in DOMAIN files /\ SigRead(n)
    \/ n = Len(files) + 1 /\ Len(files') = n /\ files'[n].kind = "entry"

GateTexts == {"Failed: Genome not loaded", "Failed: Y Chromosome not loaded"}

\* the messages posted to the worker for file id number n
SentFor(n) == {i \in DOMAIN toWorker : toWorker[i].fileId = FileId(n)}

\* C1: a call of processSignature made while window.loadedGenomeSig or
\* window.loadedYchrSig is unset (or empty) sends nothing to the worker,
\* removes the file's id from activeFileIds and sets the file's progress bar,
\* where its row is still in the document, to 100 with 'Failed: Genome not
\* loaded', resp. 'Failed: Y Chromosome not loaded'; and no message is ever
\* sent for a file whose bar shows one of these texts.
GateStopsDispatch ==
    /\ [](\A n \in IdNumbers : files[n].statusText \in GateTexts => SentFor(n) = {})
    /\ [][\A n \in DOMAIN files' :
            ProcessSignatureRuns(n)
            /\ ~(Truthy(loadedGenomeSig) /\ Truthy(loadedYchrSig))
            => /\ toWorker' = toWorker
               /\ FileId(n) \notin activeFileIds'
               /\ files'[n].inDom =>
                     /\ files'[n].percentage = 100
                     /\ files'[n].statusText =
                           IF ~Truthy(loadedGenomeSig) THEN "Failed: Genome not loaded"
                           ELSE "Failed: Y Chromosome not loaded"]_vars

\* an archive of three entries was uploaded and extracted with nothing
\* loaded: three failures at the genome gate, nothing sent
ThreeEntriesFailAtGate ==
    /\ toWorker = <<>>
    /\ \E z \in IdNumbers :
          /\ files[z].kind = "zip" /\ files[z].pc = "done"
          /\ Cardinality({n \in IdNumbers :
                             /\ files[n].kind = "entry"
                             /\ files[n].percentage = 100
                             /\ files[n].statusText = "Failed: Genome not loaded"
                             /\ FileId(n) \notin activeFileIds}) = 3

\* C2: the worker handles one request at a time to completion: no request
\* is taken (its progress posted, the Python globals set for it) while an
\* earlier request's handler has not yet posted its terminal message.
OneRequestAtATime ==
    \A a, b \in DOMAIN handlers : a < b => handlers[a].pc = "done"

\* worker.onmessage handles, in this step, a progress or result message of
\* a file whose row the user has removed
HandlesLateEvent ==
    /\ toMainRead' = toMainRead + 1
    /\ toMain[toMainRead + 1].type \in {"progress", "result"}
    /\ ~files[FileNumber(toMain[toMainRead + 1].fileId)].inDom

\* C4: a progress or result message that arrives for a file removed after
\* its dispatch is a no-op: no row is added to the table, no progress bar
\* changes, no alert is raised and activeFileIds stays as it is.
LateEventsAreIgnored ==
    [][HandlesLateEvent => UNCHANGED <<tableVars, files, alerts, activeFileIds>>]_vars

\* a file was dispatched, then removed, and its result has since been
\* handled without leaving a row
LateResultHandled ==
    \E i \in 1..toMainRead :
        /\ toMain[i].type = "result"
        /\ ~files[FileNumber(toMain[i].fileId)].inDom
        /\ \A r \in DOMAIN tableRows : tableRows[r].from # toMain[i].fileId

\* the file's task has ended as the UI thread sees it: its bar shows a
\* failure at 100, or its result was displayed
Terminal(n) ==
    \/ files[n].percentage = 100 /\ StartsWithFailed(files[n].statusText)
    \/ \E r \in DOMAIN tableRows : tableRows[r].from = FileId(n)

\* C5: a task that has reached a terminal state, Completed or Failed by any
\* cause (a Failed progress message of the worker included), has its id no
\* longer in activeFileIds.
TerminalIsInactive ==
    \A n \in IdNumbers : Terminal(n) => FileId(n) \notin activeFileIds

\* C6: once the remove handler of a file has run, the results table holds
\* no row appended for that file's result, for uploaded files and for
\* entries extracted from an archive.
RemovedHasNoRow ==
    \A n \in IdNumbers :
        ~files[n].inDom => \A r \in DOMAIN tableRows : tableRows[r].from # FileId(n)

\* the positions in toMain of the messages about request h's file
MessagesOf(h) == {i \in DOMAIN toMain : toMain[i].fileId = toWorker[h].fileId}
IsFailed(m) == m.type = "progress" /\ m.percentage = 100 /\ m.statusText = "Failed"
IsCompleted(m) == m.type = "progress" /\ m.percentage = 100 /\ m.statusText = "Completed"
IsResult(m) == m.type = "result"
\* the messages that end request h: a Failed, or a Completed and the result next to it
TerminalOf(h) == {i \in MessagesOf(h) : IsFailed(toMain[i]) \/ IsResult(toMain[i])}

\* C7: for each request it handles the worker posts exactly one terminal
\* outcome: a progress 100 'Completed' immediately followed by one result
\* for the file, or one progress 100 'Failed' with an error text; never both,
\* and nothing for the file after it.
OneTerminalOutcome ==
    \A h \in DOMAIN handlers :
        /\ Cardinality(TerminalOf(h)) = IF handlers[h].pc = "done" THEN 1 ELSE 0
        /\ \A i \in MessagesOf(h) :
              /\ IsCompleted(toMain[i]) => i + 1 \in MessagesOf(h) /\ IsResult(toMain[i + 1])
              /\ IsResult(toMain[i]) => i - 1 \in MessagesOf(h) /\ IsCompleted(toMain[i - 1])
              /\ IsFailed(toMain[i]) => toMain[i].error # ""
              /\ i \in TerminalOf(h) => \A j \in MessagesOf(h) : j <= i

\* two requests were handled to their ends, one to a result and one to Failed
BothOutcomesPosted ==
    /\ \A h \in DOMAIN handlers : handlers[h].pc = "done"
    /\ \E a, b \in DOMAIN handlers :
          /\ \E i \in TerminalOf(a) : IsResult(toMain[i])
          /\ \E i \in TerminalOf(b) : IsFailed(toMain[i])

\* the request posted for the file a worker message is about
RequestOf(m) == toWorker[CHOOSE h \in DOMAIN toWorker : toWorker[h].fileId = m.fileId]

\* C8: a failure in the worker (the payload cannot be decoded, or the
\* computation raises) ends that one task as Failed and changes no other
\* task's status: with the worker ready, the only tasks the worker reports
\* Failed are those whose own payload cannot be decoded.
FailureStaysWithItsTask ==
    \A i \in DOMAIN toMain :
        IsFailed(toMain[i]) => Malformed(RequestOf(toMain[i]).sigContent)

\* C3: once a successful load has assigned window.loadedGenomeSig,
\* loadedYchrSig, loadedAmpliconSig and specificChrsLoaded, no later step of
\* any load attempt changes one of them, whatever the interleaving of clicks
\* and fetch completions.
AdoptedBundleIsImmutable ==
    [][mainDataLoaded =>
         UNCHANGED <<loadedGenomeSig, loadedYchrSig, loadedAmpliconSig,
                     specificChrsLoaded>>]_vars

\* activation l of the load handler cannot fetch one of its required paths
FetchWillFail(l) ==
    \/ ~ResponseOk(server, GenomePath(loads[l].species, loads[l].genome))
    \/ ~ResponseOk(server, YchrPath(loads[l].species, loads[l].ychr))
    \/ /\ loads[l].amplicon # ""
       /\ ~ResponseOk(server, AmpliconPath(loads[l].species, loads[l].amplicon))

\* C9: a load that fails because its genome, Y chromosome or selected
\* amplicon cannot be fetched leaves window.loadedGenomeSig, loadedYchrSig,
\* loadedAmpliconSig, specificChrsLoaded and mainDataLoaded as they were:
\* no step of such a load changes any of them.
FailedLoadChangesNothing ==
    [][\A l \in DOMAIN loads :
           loads[l].pc # "done" /\ FetchWillFail(l) /\ loads'[l] # loads[l]
           => UNCHANGED refVars]_vars

\* C10: every request posted to the worker is a snapshot of the adopted
\* bundle: its genome, Y chromosome and amplicon are the loaded ones and its
\* per-chromosome object has exactly the labels and payloads of
\* window.specificChrsLoaded, whatever the selectors show at the dispatch.
RequestIsSnapshotOfBundle ==
    [][toWorker' # toWorker =>
         LET m == toWorker'[Len(toWorker')]
         IN  /\ m.genomeContent = loadedGenomeSig
             /\ m.ychrContent = loadedYchrSig
             /\ m.ampliconContent = loadedAmpliconSig
             /\ Keys(m.specificChrsContent) = Keys(specificChrsLoaded)
             /\ \A c \in Keys(specificChrsLoaded) :
                   m.specificChrsContent.at[c] = specificChrsLoaded.at[c]]_vars

\* the percentages of the progress messages the worker has posted for
\* request h's file, in the order it posted them
ProgressOf(h) ==
    LET IsProgressOfH(m) == m.type = "progress" /\ m.fileId = toWorker[h].fileId
        posted == SelectSeq(toMain, IsProgressOfH)
    IN  [i \in DOMAIN posted |-> posted[i].percentage]

\* the worker has posted a result for request h
Succeeded(h) == \E i \in MessagesOf(h) : IsResult(toMain[i])

IsPrefix(s, t) == Len(s) <= Len(t) /\ \A i \in DOMAIN s : s[i] = t[i]

\* C11 as stated: the progress values reported for a successfully processed
\* sample are 10, 60, 90, 100 in that order.
ProgressIs10_60_90_100 ==
    \A h \in DOMAIN handlers : Succeeded(h) => ProgressOf(h) = <<10, 60, 90, 100>>

\* C11, as the code has it: processSignature sets the bar to 10 and then 40
\* before it posts the request; the worker then reports 50, 60 and 100 in
\* that order (a prefix of it while it is at work) and, for a sample
\* processed successfully, exactly one result, as its last message.
ProgressIs50_60_100 ==
    /\ \A i \in DOMAIN toWorker :
          LET n == FileNumber(toWorker[i].fileId)
          IN  files[n].inDom => files[n].percentage \in {40, 50, 60, 100}
    /\ \A h \in DOMAIN handlers :
          /\ IsPrefix(ProgressOf(h), <<50, 60, 100>>)
          /\ Succeeded(h) =>
                /\ ProgressOf(h) = <<50, 60, 100>>
                /\ Cardinality({i \in MessagesOf(h) : IsResult(toMain[i])}) = 1
                /\ \A i \in MessagesOf(h) : IsResult(toMain[i]) => \A j \in MessagesOf(h) : j <= i

\* a sample was processed successfully and the UI thread has shown its
\* result and its last progress
SampleCompleted ==
    \E h \in DOMAIN handlers :
        /\ Succeeded(h)
        /\ \E r \in DOMAIN tableRows : tableRows[r].from = toWorker[h].fileId
        /\ files[FileNumber(toWorker[h].fileId)].percentage = 100
        /\ files[FileNumber(toWorker[h].fileId)].statusText = "Completed"

\* the field names of a record, in order
FieldsOf(record) == [j \in DOMAIN record |-> record[j][1]]

\* what the computation returned for the sample of a request
ReturnedFor(request) == ProcessSample(SetGlobals(request)).result

\* C12: every result message carries a record with the fixed set of named
\* fields of result_json, whatever the computation returned, and each field
\* the computation did not return has the value "N/A".
ResultHasAllFields ==
    \A i \in DOMAIN toMain :
        IsResult(toMain[i]) =>
            /\ FieldsOf(toMain[i].result) = ResultFields
            /\ \A j \in DOMAIN toMain[i].result :
                  toMain[i].result[j][1] \notin Range(FieldsOf(ReturnedFor(RequestOf(toMain[i]))))
                  => toMain[i].result[j][2] = "N/A"

\* C13: when serializing the request fails, processSignature sends nothing
\* to the worker, removes the file's id from activeFileIds and sets the
\* file's progress bar, where its row is still in the document, to 100 with
\* 'Failed: Data serialization error'; no request ever posted holds the
\* payload that cannot be serialized.
SerializationFailureStopsDispatch ==
    /\ [](\A i \in DOMAIN toWorker : toWorker[i].sigContent # SigContent(HugeSigFileName))
    /\ [][\A n \in DOMAIN files' :
            ProcessSignatureRuns(n)
            /\ Truthy(loadedGenomeSig) /\ Truthy(loadedYchrSig)
            /\ files'[n].name = HugeSigFileName
            => /\ toWorker' = toWorker
               /\ FileId(n) \notin activeFileIds'
               /\ files'[n].inDom =>
                     /\ files'[n].percentage = 100
                     /\ files'[n].statusText = "Failed: Data serialization error"]_vars

\* the huge file was dropped and read with the bundle loaded, and its bar
\* shows the serialization failure, while another file's request was posted
SerializationFailed ==
    /\ Truthy(loadedGenomeSig) /\ Truthy(loadedYchrSig)
    /\ \E n \in IdNumbers :
          /\ files[n].name = HugeSigFileName
          /\ files[n].pc = "done"
          /\ files[n].percentage = 100
          /\ files[n].statusText = "Failed: Data serialization error"
          /\ FileId(n) \notin activeFileIds
          /\ SentFor(n) = {}
    /\ toWorker # <<>>

\* the sample tasks: uploaded signature files and entries extracted from archives
IsSampleTask(n) == files[n].kind \in {"sig", "entry"}

\* C14: an upload adds to activeFileIds one id per sample task it yields (one
\* for a signature file, one per eligible entry for an archive) and no other
\* id, and each request posted is the one request of a sample task.
IngestAddsOneIdPerSample ==
    /\ \A id \in activeFileIds : IsSampleTask(FileNumber(id))
    /\ \A i \in DOMAIN toWorker :
          /\ IsSampleTask(FileNumber(toWorker[i].fileId))
          /\ SentFor(FileNumber(toWorker[i].fileId)) = {i}

\* C15: the ids generated for uploads and for extracted entries are pairwise
\* distinct, also when generated in the same millisecond, so no two tasks
\* share an id in activeFileIds.
GeneratedIdsAreDistinct ==
    /\ \A m, n \in DOMAIN files : m # n => files[m].id # files[n].id
    /\ Cardinality(activeFileIds) = Len(files)

\* the handler of archive n learns in this step that the archive holds no
\* eligible entry
EmptyArchiveLoaded(n) ==
    /\ files[n].kind = "zip" /\ files[n].pc = "loading" /\ files[n].entries = {}
    /\ files'[n].pc # "loading"

\* C16: ingesting an archive with no eligible entry fails: no sample task is
\* created for it then or later, nothing is sent to the worker, its id is
\* removed from activeFileIds and its progress bar, where its row is still
\* in the document, is set to 100 'Failed'.
EmptyArchiveFails ==
    [][\A n \in DOMAIN files :
          /\ EmptyArchiveLoaded(n) =>
                /\ Len(files') = Len(files)
                /\ toWorker' = toWorker
                /\ FileId(n) \notin activeFileIds'
                /\ files'[n].pc = "done"
                /\ files'[n].inDom =>
                      files'[n].percentage = 100 /\ files'[n].statusText = "Failed"
          /\ files[n].kind = "zip" /\ files[n].pc = "done" =>
                files'[n].pc = "done" /\ files'[n].entries = files[n].entries]_vars

\* an archive with no eligible entry was dropped and has failed
EmptyArchiveFailed ==
    /\ Len(files) = 1
    /\ files[1].kind = "zip" /\ files[1].pc = "done"
    /\ files[1].percentage = 100 /\ files[1].statusText = "Failed"
    /\ activeFileIds = {}
    /\ toWorker = <<>>

\* the worker has posted the error message of initializePyodide
ErrorPosted == \E i \in DOMAIN toMain : toMain[i].type = "error"

\* C17: once the worker has posted its initialization error it posts no
\* pyodide-ready and no result, and a task dispatched to it is not lost from
\* view: its progress bar, where its row is in the document, stays below 100
\* or ends at 100 'Failed', and no table row appears.
FailedWorkerStaysUnusable ==
    ErrorPosted =>
        /\ \A i \in DOMAIN toMain : toMain[i].type \notin {"pyodide-ready", "result"}
        /\ tableRows = <<>>
        /\ \A i \in DOMAIN toWorker :
              LET n == FileNumber(toWorker[i].fileId)
              IN  files[n].inDom =>
                    \/ files[n].percentage \in {40, 50, 60}
                    \/ files[n].percentage = 100 /\ files[n].statusText = "Failed"

\* the worker posted its initialization error, then handled a request, and
\* the UI thread has shown that task as Failed
FailedAfterInitError ==
    /\ toMainRead = Len(toMain)
    /\ \E i, j \in DOMAIN toMain :
          /\ i < j
          /\ toMain[i].type = "error"
          /\ toMain[j].type = "progress" /\ toMain[j].percentage = 50
          /\ LET n == FileNumber(toMain[j].fileId)
             IN  files[n].percentage = 100 /\ files[n].statusText = "Failed"

(***************************************************************************)
(* C18: requests are started by the worker in the order they arrived, and  *)
(* the terminal outcomes (the result, or progress 100 'Failed') of         *)
(* different requests are posted in that same order: a later request has   *)
(* no start, and no outcome, before every earlier one has its own.         *)
(***************************************************************************)
StartsOf(h) == {i \in MessagesOf(h) : toMain[i].type = "progress" /\ toMain[i].percentage = 50}

AllBefore(I, J) == \A i \in I : \A j \in J : i < j

InitProgress ==
    /\ Constructed("complete") \/ LoaderLeaves("complete", "human")
    /\ WorkerStarted
    /\ NothingUploaded

NextProgress ==
    \/ AddedSample
    \/ AddedHugeFile
    \/ \E n \in IdNumbers : SigRead(n)
    \/ \E n \in IdNumbers : SigReadFailed(n)
    \/ \E n \in IdNumbers : ZipLoaded(n)
    \/ \E n \in IdNumbers : EntryExtracted(n)
    \/ MainOnMessage
    \/ PyodideLoaded
    \/ InitSucceeded
    \/ InitFailed
    \/ WorkerOnMessage
    \/ \E h \in DOMAIN handlers : PythonRuns(h)
    \/ \E h \in DOMAIN handlers : HandlerResumes(h)

SpecProgress == InitProgress /\ [][NextProgress]_vars

(***************************************************************************)
(* C19: as long as a task's row is shown, no update of its progress bar,   *)
(* by processSignature or by a progress event of the worker, lowers the    *)
(* percentage, on the successful path and on every failing one.            *)
(***************************************************************************)
BarNeverRegresses ==
    [][\A n \in DOMAIN files :
          files[n].inDom /\ files'[n].inDom => files'[n].percentage >= files[n].percentage]_vars

\* one sample went through every milestone, another was failed by the worker
OneCompletedOneFailed ==
    \E n \in DOMAIN files : \E m \in DOMAIN files :
        /\ files[n].inDom /\ files[n].percentage = 100 /\ files[n].statusText = "Completed"
        /\ files[m].inDom /\ files[m].percentage = 100 /\ files[m].statusText = "Failed"
        /\ \E h \in DOMAIN handlers : toWorker[h].fileId = FileId(m)

(***************************************************************************)
(* The export on its own: the table holds any content within the bounds    *)
(* (a header row of up to MaxColumns cells, up to MaxTableRows rows of as  *)
(* many cells, or nothing at all), and the export button is clicked.       *)
(***************************************************************************)
Chars == {"a", TAB, NL}
Texts == UNION {[1..k -> Chars] : k \in 0..MaxTextLen}
\* a cell shows 'N/A' for an empty value (main.js 449)
CellTexts == Texts \ {<<>>}

TablesOf(columns, rowCount) ==
    {[head |-> <<h>>, rows |-> [r \in 1..rowCount |-> [from |-> FileId(r), cells |-> cells[r]]]] :
        h \in [1..columns -> Texts], cells \in [1..rowCount -> [1..columns -> CellTexts]]}

Tables ==
    {[head |-> <<>>, rows |-> <<>>]}
        \cup UNION {TablesOf(c, r) : c \in 0..MaxColumns, r \in 0..MaxTableRows}

InitExport ==
    /\ Constructed("complete")
    /\ WorkerReady
    /\ removes = 0
    /\ activeFileIds = {}
    /\ files = <<>>
    /\ toWorker = <<>>
    /\ toWorkerRead = 0
    /\ pyGlobals = NoGlobals
    /\ handlers = <<>>
    /\ \E table \in Tables :
          /\ tableHead = table.head
          /\ tableRows = table.rows
    /\ containerDisplay = IF tableRows = <<>> THEN "" ELSE "block"
    /\ download = NoDownload

NextExport == ExportClicked

SpecExport == InitExport /\ [][NextExport]_vars

(***************************************************************************)
(* C20: the exported text, split on newlines and each line split on tabs,  *)
(* gives back the header cells as its first line and the cells of the      *)
(* table's rows, row by row, as its other lines.                           *)
(***************************************************************************)
\* String.prototype.split on one character
RECURSIVE Split(_, _)
Split(text, sep) ==
    IF \A i \in DOMAIN text : text[i] # sep
    THEN <<text>>
    ELSE LET i == CHOOSE k \in DOMAIN text :
                      text[k] = sep /\ \A j \in 1..(k - 1) : text[j] # sep
         IN  <<SubSeq(text, 1, i - 1)>> \o Split(SubSeq(text, i + 1, Len(text)), sep)

SplitAgain(tsv) ==
    LET lines == Split(tsv, NL)
    IN  [headers |-> Split(lines[1], TAB),
         rows |-> [r \in 1..(Len(lines) - 1) |-> Split(lines[r + 1], TAB)]]

Rendered ==
    [headers |-> ThTexts(tableHead), rows |-> [r \in DOMAIN tableRows |-> tableRows[r].cells]]

ExportRoundTrips == download # NoDownload => SplitAgain(download) = Rendered

(***************************************************************************)
(* The same request twice.  processSignature is called once per row, so    *)
(* the page posts one request twice only when two uploads of one file got  *)
(* the same generated id; DispatchedAgain is that second call, for the id  *)
(* and the content of an upload whose request was already posted.          *)
(***************************************************************************)
RequestsFor(fileId) == {h \in DOMAIN toWorker : toWorker[h].fileId = fileId}

DispatchedAgain(n) ==
    /\ n \in IdNumbers
    /\ files[n].kind = "sig" /\ files[n].pc = "done"
    /\ Cardinality(RequestsFor(FileId(n))) = 1
    /\ LET r == ProcessSignature(files, activeFileIds, n, files[n].name,
                                 SigContent(files[n].name))
       IN  /\ r.post = <<toWorker[CHOOSE h \in RequestsFor(FileId(n)) : TRUE]>>
           /\ files' = r.files
           /\ activeFileIds' = r.active
           /\ alerts' = r.alerts
           /\ toWorker' = toWorker \o r.post
    /\ UNCHANGED <<server, userVars, selVars, refVars, loads, tableVars, toWorkerRead, toMain, toMainRead,
                   workerVars>>

NextRedispatch ==
    \/ AddedSample
    \/ \E n \in IdNumbers : SigRead(n)
    \/ \E n \in IdNumbers : SigReadFailed(n)
    \/ \E n \in IdNumbers : ZipLoaded(n)
    \/ \E n \in IdNumbers : EntryExtracted(n)
    \/ \E n \in IdNumbers : DispatchedAgain(n)
    \/ MainOnMessage
    \/ WorkerOnMessage
    \/ \E h \in DOMAIN handlers : PythonRuns(h)
    \/ \E h \in DOMAIN handlers : HandlerResumes(h)

SpecRedispatch == InitPipeline /\ [][NextRedispatch]_vars

(***************************************************************************)
(* C21: when the identical request is posted twice, the worker reports     *)
(* each of the two with its own milestones and outcome, and the page       *)
(* handles the second outcome as it handled the first: every result it has *)
(* received for a task that was not removed is shown as a row of the table.*)
(***************************************************************************)
ResultsReceived(fileId) ==
    {i \in 1..toMainRead : toMain[i].type = "result" /\ toMain[i].fileId = fileId}

RowsOf(fileId) == {r \in DOMAIN tableRows : tableRows[r].from = fileId}

EachOutcomeIsHandled ==
    \A n \in DOMAIN files :
        files[n].inDom =>
            Cardinality(RowsOf(FileId(n))) = Cardinality(ResultsReceived(FileId(n)))

(***************************************************************************)
(* C22: the worker handles no request before its initialization has ended  *)
(* with 'pyodide-ready': until then it posts no progress and sets no       *)
(* Python global.                                                          *)
(***************************************************************************)
ReadyPostedBefore(i) == \E j \in 1..(i - 1) : toMain[j].type = "pyodide-ready"

RequestsWaitForReady ==
    /\ \A i \in DOMAIN toMain : toMain[i].type = "progress" => ReadyPostedBefore(i)
    /\ pyGlobals.fileName # NoGlobals.fileName => ReadyPostedBefore(Len(toMain) + 1)

(***************************************************************************)
(* C23: the computation of a request reads the Python globals that were    *)
(* set for that request: when the Python code of an activation runs, the   *)
(* globals hold the values of the activation's own request.                *)
(***************************************************************************)
ComputationReadsOwnRequest ==
    [][\A h \in DOMAIN handlers :
          handlers[h].pc = "awaiting" /\ handlers'[h].pc # "awaiting"
              => pyGlobals = SetGlobals(toWorker[h])]_vars

(***************************************************************************)
(* C24: removing a task tells the worker nothing: the step that takes a    *)
(* row out of the page posts no message, leaves the requests posted (those *)
(* waiting and those being handled) as they are, and leaves the worker and *)
(* what it has posted untouched, so the worker goes on with the request.   *)
(***************************************************************************)
RowLeaves(n) == files[n].inDom /\ ~files'[n].inDom

RemovalIsAdvisory ==
    /\ [][(\E n \in DOMAIN files : RowLeaves(n)) => UNCHANGED <<chanVars, workerVars>>]_vars
    /\ [](\A h \in DOMAIN handlers :
             handlers[h].pc = "done" => StartsOf(h) # {} /\ TerminalOf(h) # {})

\* a task is removed, its request has no outcome yet, and its computation
\* has run
RemovedWhilePending ==
    \E n \in DOMAIN files :
        /\ ~files[n].inDom
        /\ \E h \in RequestsFor(FileId(n)) \cap DOMAIN handlers :
              TerminalOf(h) = {} /\ handlers[h].pc = "returned"

(***************************************************************************)
(* The page's side of the channel on its own: samples are uploaded,        *)
(* dispatched and removed, and the worker's events for the dispatched ids  *)
(* arrive in any number and order.  A result carries a record with the     *)
(* first fields of result_json (worker.js 87-124), all with a text or all  *)
(* with the number 0 as their value.                                       *)
(***************************************************************************)
MaxEvents == 2

TableFields == SubSeq(ResultFields, 1, MaxColumns)
RecordValues == {"a.sig", NumberZero}
Records == {[i \in DOMAIN TableFields |-> <<TableFields[i], v>>] : v \in RecordValues}

Dispatched == {n \in DOMAIN files : RequestsFor(FileId(n)) # {}}

WorkerEvents ==
    {Message("result", FileId(n), 0, "", record, "") : n \in Dispatched, record \in Records}
        \cup {Progress(FileId(n), 100, "Completed") : n \in Dispatched}

\* worker.js 47-145: self.postMessage of a progress or result event
WorkerPosts ==
    /\ Len(toMain) < 1 + MaxEvents
    /\ \E m \in WorkerEvents : Post(<<m>>)
    /\ UNCHANGED <<server, userVars, selVars, refVars, loads, fileVars, tableVars, alerts, toWorker,
                   toWorkerRead, toMainRead, workerVars>>

\* main.js 130-178: the signature file a.sig is added as a sample
AddedSigSample ==
    /\ files' = Append(files, NewFile("sig", "a.sig", {}))
    /\ AddedSample

NextTable ==
    \/ AddedSigSample
    \/ \E n \in IdNumbers : SigRead(n)
    \/ \E n \in IdNumbers : RemoveUploaded(n)
    \/ WorkerPosts
    \/ MainOnMessage

SpecTable == InitPipeline /\ [][NextTable]_vars

(***************************************************************************)
(* C25: the header row is made once, from the fields of the first record   *)
(* displayed, in their order, and never changes afterwards, also when no   *)
(* row is left; every row of the table has one cell per header cell.       *)
(***************************************************************************)
KeysOf(record) == [i \in DOMAIN record |-> record[i][1]]

ContainerFollowsRows ==
    /\ [](tableRows # <<>> => containerDisplay = "block")
    /\ [][(\E n \in DOMAIN files : RowLeaves(n)) /\ tableRows' = <<>>
              => containerDisplay' = "none"]_vars

\* the last row of a table that was shown has been removed
LastRowRemoved == tableHead # <<>> /\ tableRows = <<>> /\ containerDisplay = "none"

(***************************************************************************)
(* C27: a cell shows the value its record has for the field: the row made  *)
(* for a record holds, field by field, the texts of the record's values,   *)
(* the number 0 included.                                                  *)
(***************************************************************************)
\* the text of a value: String(0) is "0"
TextOf(value) == IF value = NumberZero THEN "0" ELSE value

CellsShowValues ==
    [][Len(tableRows') = Len(tableRows) + 1 =>
          LET record == toMain[toMainRead'].result
          IN  tableRows'[Len(tableRows')].cells = [i \in DOMAIN record |-> TextOf(record[i][2])]]_vars

(***************************************************************************)
(* C28: the worker posts no result before it has posted 'pyodide-ready',   *)
(* and of 'pyodide-ready' and the initialization 'error' it posts none     *)
(* while it initializes and exactly one, once, when initialization ended,  *)
(* which it does when every await of initializePyodide settles.            *)
(***************************************************************************)
InitSignals == {i \in DOMAIN toMain : toMain[i].type \in {"pyodide-ready", "error"}}

\* the awaits of initializePyodide (worker.js 12-23) settle, one way or the other
InitSteps == PyodideLoaded \/ InitSucceeded \/ InitFailed
SpecStartFair == SpecStart /\ WF_vars(InitSteps)

OneRowPerTask ==
    /\ [](\A n \in DOMAIN files :
             /\ Cardinality(RowsOf(FileId(n))) <= 1
             /\ ResultsReceived(FileId(n)) # {} => FileId(n) \notin activeFileIds)
    /\ [][toMainRead' = toMainRead + 1 /\ ResultsReceived(toMain[toMainRead'].fileId) # {}
              => UNCHANGED <<fileVars, tableVars, alerts>>]_vars

\* two results for one id were handled and the id has one row
SecondResultIgnored ==
    \E n \in DOMAIN files :
        Cardinality(ResultsReceived(FileId(n))) = 2 /\ Cardinality(RowsOf(FileId(n))) = 1

(***************************************************************************)
(* The adoption of the references on its own: a species was selected,      *)
(* which filled the other selectors; the load button is clicked, the       *)
(* responses arrive, and a signature file is uploaded and dispatched at    *)
(* any moment.                                                             *)
(***************************************************************************)
\* the page after the species sp was selected (main.js 533-601)
SpeciesSelected(sp) ==
    /\ speciesSelect = sp
    /\ genomeSelect = First(Genomes(sp))
    /\ ychrSelect = First(YChrs(sp))
    /\ ampliconSelect = First(Amplicons(sp))
    /\ loadDisabled = FALSE
    /\ selChanges = 1
    /\ mainDataLoaded = FALSE
    /\ loadedGenomeSig = Undefined
    /\ loadedYchrSig = Undefined
    /\ loadedAmpliconSig = Undefined
    /\ specificChrsLoaded = NoObject
    /\ loads = <<>>
    /\ alerts = 0

InitAdopt ==
    /\ server \in Servers
    /\ \E sp \in Range(Species) : SpeciesSelected(sp)
    /\ WorkerReady
    /\ NothingUploaded

NextAdopt ==
    \/ LoadClick
    \/ \E l \in DOMAIN loads : GenomeFetched(l)
    \/ \E l \in DOMAIN loads : YchrFetched(l)
    \/ \E l \in DOMAIN loads : ChrFetched(l)
    \/ \E l \in DOMAIN loads : AmpliconFetched(l)
    \/ AddedSigFile
    \/ \E n \in IdNumbers : SigRead(n)

SpecAdopt == InitAdopt /\ [][NextAdopt]_vars

(***************************************************************************)
(* C30: the references are adopted in one step: in every state, and so in  *)
(* every state a dispatch can run in, mainDataLoaded is true exactly when  *)
(* window.loadedGenomeSig and window.loadedYchrSig have both been          *)
(* assigned, and neither is ever assigned without the other.               *)
(***************************************************************************)
Assigned(v) == v # Undefined

AdoptionIsAtomic ==
    /\ mainDataLoaded <=> Assigned(loadedGenomeSig) /\ Assigned(loadedYchrSig)
    /\ Assigned(loadedGenomeSig) <=> Assigned(loadedYchrSig)

\* a sample was dispatched after an adoption, and another while a load was
\* under way
DispatchedAroundAdoption ==
    /\ mainDataLoaded
    /\ \E n \in DOMAIN files : files[n].pc = "done" /\ RequestsFor(FileId(n)) # {}

====
